---- MODULE Spec2Model ----
(***************************************************************************)
(* Model of the image preprocessing agent:                                 *)
(*   ImagePreprocessor.resize_image       (image_preprocessing_gemini.py)  *)
(*   ImagePreprocessor.add_bounding_boxes                                  *)
(*   ImagePreprocessor.preprocess_dataset                                  *)
(*   create_sample_annotations                                             *)
(* File names are sequences of one-character strings, image sizes are      *)
(* pairs <<width, height>>, Python lists are sequences (index i of the     *)
(* code is index i + 1 here).                                              *)
(***************************************************************************)
EXTENDS Integers, Sequences, FiniteSets, TLC

VARIABLES
    \* ---- resize_image, one call ----
    rzIn,        \* the arguments and the image found at image_path
    rzOut,       \* the returned dict, or NoResult before the call
    \* ---- create_sample_annotations, one call ----
    smIn,        \* num_boxes, image_width, image_height
    smPc,        \* "loop", "returned" or "raised"
    smI,         \* the loop variable i
    smBoxes,     \* the list boxes
    \* ---- preprocess_dataset: the directories and arguments ----
    inputDir,    \* the names of the entries of input_dir
    unreadable,  \* the entries of input_dir that Image.open cannot read
    annotations, \* the annotations argument
    outDirs,     \* the names in output_dir that are directories
    outFiles,    \* the names in output_dir that are regular files
    \* ---- preprocess_dataset: the call ----
    pc,          \* "start", "loop", "done" (returned) or "raised"
    order,       \* the entries as Path(input_dir).iterdir() yields them
    idx,         \* how many entries the for loop has taken
    results,     \* the dict results
    log,         \* the calls made on files so far, in order
    run,         \* 1 for the first call, 2 for a second one
    prev,        \* the dict the first call returned
    \* ---- main of image_preprocessing_agent.py ----
    environ,     \* os.environ: the variables that are set, with their values
    dotenv,      \* the variables the .env file sets
    agPc,        \* where main is
    provider     \* what detect_api_provider returned

rzVars == <<rzIn, rzOut>>

smVars == <<smIn, smPc, smI, smBoxes>>

dirVars == <<inputDir, unreadable, annotations, outDirs>>

callVars == <<outFiles, pc, order, idx, results, log, run, prev>>

agVars == <<environ, dotenv, agPc, provider>>

vars == <<rzVars, smVars, dirVars, callVars, agVars>>

NoResult == [status |-> "none"]

Abs(n) == IF n < 0 THEN 0 - n ELSE n

Max(a, b) == IF a >= b THEN a ELSE b

(***************************************************************************)
(* resize_image                                                            *)
(***************************************************************************)

\* Largest image and target dimension of the model.
MaxDim == 8

Sizes == (1..MaxDim) \X (1..MaxDim)

\* math.floor and math.ceil of the rational p / q, q > 0, p >= 0.
Floor(p, q) == p \div q

Ceil(p, q) == (p + q - 1) \div q

\* Image.thumbnail: round_aspect for the width, number = y * aspect with
\* aspect = w / h; key(n) = abs(aspect - n / y), compared after
\* multiplying by h * y.  min() keeps the first argument on a tie.
RoundAspectX(w, h, y) ==
    LET lo == Floor(y * w, h)
        hi == Ceil(y * w, h)
        pick == IF Abs(w * y - lo * h) <= Abs(w * y - hi * h) THEN lo ELSE hi
    IN  Max(pick, 1)

\* round_aspect for the height, number = x / aspect;
\* key(n) = 0 if n == 0 else abs(aspect - x / n).
RoundAspectY(w, h, x) ==
    LET lo == Floor(x * h, w)
        hi == Ceil(x * h, w)
        pick == IF lo = 0 THEN lo
                ELSE IF Abs(w * lo - x * h) * hi <= Abs(w * hi - x * h) * lo
                     THEN lo ELSE hi
    IN  Max(pick, 1)

\* img.thumbnail(target): the size of img afterwards.  An image that
\* already fits is left alone, otherwise it is scaled down, keeping the
\* aspect ratio.
Thumbnail(size, target) ==
    LET w == size[1]
        h == size[2]
        x == target[1]
        y == target[2]
    IN  IF x >= w /\ y >= h THEN size
        ELSE IF x * h >= w * y THEN <<RoundAspectX(w, h, y), y>>
        ELSE <<x, RoundAspectY(w, h, x)>>

\* resize_image with the canvas of the letterbox path left out.
resize_image_nocanvas(img, target_size, maintain_aspect, can_save) ==
    IF ~img.readable
    THEN [status |-> "error", error |-> "cannot identify image file"]
    ELSE IF ~can_save
    THEN [status |-> "error", error |-> "Is a directory"]
    ELSE IF maintain_aspect
    THEN LET scaled == Thumbnail(img.size, target_size)
             paste_x == (target_size[1] - scaled[1]) \div 2
             paste_y == (target_size[2] - scaled[2]) \div 2
         IN  [status |-> "success", original_size |-> img.size,
              new_size |-> scaled, scaled |-> scaled,
              paste |-> <<paste_x, paste_y>>]
    ELSE [status |-> "success", original_size |-> img.size,
          new_size |-> target_size, scaled |-> target_size,
          paste |-> <<0, 0>>]

\* resize_image with the paste offset rounded up.
resize_image_ceil(img, target_size, maintain_aspect, can_save) ==
    IF ~img.readable
    THEN [status |-> "error", error |-> "cannot identify image file"]
    ELSE IF ~can_save
    THEN [status |-> "error", error |-> "Is a directory"]
    ELSE IF maintain_aspect
    THEN LET scaled == Thumbnail(img.size, target_size)
             paste_x == (target_size[1] - scaled[1]) \div 2 + 1
             paste_y == (target_size[2] - scaled[2]) \div 2 + 1
         IN  [status |-> "success", original_size |-> img.size,
              new_size |-> target_size, scaled |-> scaled,
              paste |-> <<paste_x, paste_y>>]
    ELSE [status |-> "success", original_size |-> img.size,
          new_size |-> target_size, scaled |-> target_size,
          paste |-> <<0, 0>>]

\* The dict resize_image returns.  img is what Image.open finds: readable
\* or not, and its size; can_save tells whether img.save(output_path)
\* succeeds.  scaled (img.size after thumbnail) and paste (paste_x,
\* paste_y) are locals of the call, kept for the letterbox properties.
resize_image(img, target_size, maintain_aspect, can_save) ==
    IF ~img.readable
    THEN [status |-> "error", error |-> "cannot identify image file"]
    ELSE IF ~can_save
    THEN [status |-> "error", error |-> "Is a directory"]
    ELSE IF maintain_aspect
    THEN LET scaled == Thumbnail(img.size, target_size)
             paste_x == (target_size[1] - scaled[1]) \div 2
             paste_y == (target_size[2] - scaled[2]) \div 2
         IN  [status |-> "success", original_size |-> img.size,
              new_size |-> target_size, scaled |-> scaled,
              paste |-> <<paste_x, paste_y>>]
    ELSE [status |-> "success", original_size |-> img.size,
          new_size |-> target_size, scaled |-> target_size,
          paste |-> <<0, 0>>]

ResizeInputs ==
    [img : [readable : BOOLEAN, size : Sizes],
     target_size : Sizes,
     maintain_aspect : BOOLEAN,
     can_save : BOOLEAN]

\* One call of resize_image.
ResizeCall ==
    /\ rzOut = NoResult
    /\ rzOut' = resize_image(rzIn.img, rzIn.target_size, rzIn.maintain_aspect,
                           rzIn.can_save)
    /\ UNCHANGED <<rzIn, smVars, dirVars, agVars, callVars>>

(***************************************************************************)
(* create_sample_annotations                                               *)
(***************************************************************************)

\* Largest num_boxes of the model.
MaxBoxes == 7

\* image_width and image_height range over the widths around the smallest
\* one for which randint(50, width - 150) has a value to return.
DimSpan == 2

XLow == 50

XMargin == 150

SizeLow == 80

SizeHigh == 150

labels == <<"object", "target", "item", "entity", "element">>

colors == <<"red", "blue", "green", "yellow", "purple">>

SampleDims == (XLow + XMargin - 1)..(XLow + XMargin + DimSpan)

SampleInputs ==
    [num_boxes : (-1)..MaxBoxes, image_width : SampleDims,
     image_height : SampleDims]

\* np.random.randint(low, high) returns a value of the half-open range
\* [low, high) and raises ValueError when the range is empty.
RandintRaises(low, high) == low >= high

\* The draws the model takes from a range are its smallest and its largest
\* value.
Randint(low, high, end) == IF end = "lo" THEN low ELSE high - 1

\* The four randint calls of one box (x, y, width, height) take these ends
\* of their ranges.
Rolls ==
    {<<"lo", "lo", "lo", "lo">>, <<"hi", "hi", "hi", "hi">>,
     <<"lo", "hi", "lo", "hi">>}

\* labels[i % len(labels)] with a wrong modulus.
LabelAt_short(i) == labels[(i % (Len(labels) - 1)) + 1]

\* labels[i % len(labels)]
LabelAt(i) == labels[(i % Len(labels)) + 1]

\* colors[i % len(colors)]
ColorAt(i) == colors[(i % Len(colors)) + 1]

\* The end of the x and y range moved to the full image width.
PosHigh_wide(dimension) == dimension

\* The high end of the randint range for x and y.
PosHigh(dimension) == dimension - XMargin

\* One pass of the for loop: four randint calls, then boxes.append(box).
SampleBox ==
    /\ smPc = "loop"
    /\ smI < smIn.num_boxes
    /\ ~RandintRaises(XLow, PosHigh(smIn.image_width))
    /\ ~RandintRaises(XLow, PosHigh(smIn.image_height))
    /\ \E r \in Rolls :
         LET box == [x |-> Randint(XLow, PosHigh(smIn.image_width), r[1]),
                     y |-> Randint(XLow, PosHigh(smIn.image_height), r[2]),
                     width |-> Randint(SizeLow, SizeHigh, r[3]),
                     height |-> Randint(SizeLow, SizeHigh, r[4]),
                     label |-> LabelAt(smI),
                     color |-> ColorAt(smI)]
         IN  smBoxes' = Append(smBoxes, box)
    /\ smI' = smI + 1
    /\ UNCHANGED <<smIn, smPc, rzVars, dirVars, agVars, callVars>>

\* A randint call of the loop body raises ValueError: nothing catches it,
\* the call ends without a return value.
SampleRaise ==
    /\ smPc = "loop"
    /\ smI < smIn.num_boxes
    /\ \/ RandintRaises(XLow, PosHigh(smIn.image_width))
       \/ RandintRaises(XLow, PosHigh(smIn.image_height))
    /\ smPc' = "raised"
    /\ UNCHANGED <<smIn, smI, smBoxes, rzVars, dirVars, agVars, callVars>>

\* The loop is over: return json.dumps(boxes).
SampleReturn ==
    /\ smPc = "loop"
    /\ smI >= smIn.num_boxes
    /\ smPc' = "returned"
    /\ UNCHANGED <<smIn, smI, smBoxes, rzVars, dirVars, agVars, callVars>>

(***************************************************************************)
(* File names                                                              *)
(***************************************************************************)

a_jpg == <<"a", ".", "j", "p", "g">>

b_PNG == <<"b", ".", "P", "N", "G">>

b_png == <<"b", ".", "p", "n", "g">>

c_txt == <<"c", ".", "t", "x", "t">>

d_webp == <<"d", ".", "w", "e", "b", "p">>

\* A hidden file: its whole name is a dot and three letters.
dot_jpg == <<".", "j", "p", "g">>

\* f"resized_{img_file.name}"
ResizedName(name) == <<"r", "e", "s", "i", "z", "e", "d", "_">> \o name

\* The names an input directory of the model is made of.
Names == {a_jpg, b_PNG, ResizedName(a_jpg), c_txt, d_webp, dot_jpg}

\* str.lower on the letters that occur in Names.
LowerChar(ch) ==
    CASE ch = "P" -> "p"
      [] ch = "N" -> "n"
      [] ch = "G" -> "g"
      [] ch = "J" -> "j"
      [] OTHER -> ch

Lower(name) == [i \in 1..Len(name) |-> LowerChar(name[i])]

\* PurePath.suffix: the name from its last dot on, unless that dot is the
\* first or the last character or there is none.
Suffix(name) ==
    LET dots == {i \in 1..Len(name) : name[i] = "."}
        last == IF dots = {} THEN 0
                ELSE CHOOSE i \in dots : \A j \in dots : j <= i
    IN  IF 1 < last /\ last < Len(name)
        THEN SubSeq(name, last, Len(name))
        ELSE <<>>

\* SUPPORTED_FORMATS of config.py in the place of image_extensions.
image_extensions_config ==
    {<<".", "j", "p", "g">>, <<".", "j", "p", "e", "g">>,
     <<".", "p", "n", "g">>, <<".", "b", "m", "p">>,
     <<".", "t", "i", "f", "f">>, <<".", "w", "e", "b", "p">>}

image_extensions ==
    {<<".", "j", "p", "g">>, <<".", "j", "p", "e", "g">>,
     <<".", "p", "n", "g">>, <<".", "b", "m", "p">>,
     <<".", "t", "i", "f", "f">>}

\* img_file.suffix.lower() in image_extensions
IsEligible(name) == Lower(Suffix(name)) \in image_extensions

(***************************************************************************)
(* add_bounding_boxes                                                      *)
(***************************************************************************)

\* A box with every key, and one without 'x': box['x'] raises KeyError.
GoodBox ==
    [x |-> 10, y |-> 10, width |-> 50, height |-> 50, label |-> "obj"]

BadBox == [y |-> 10, width |-> 50, height |-> 50, label |-> "obj"]

BoxLists == {<<>>, <<GoodBox>>, <<BadBox>>}

\* The dict add_bounding_boxes returns: an exception of Image.open, of the
\* drawing loop or of img.save becomes an error dict.
add_bounding_boxes(can_open, boxes, can_save) ==
    IF ~can_open
    THEN [status |-> "error", error |-> "No such file or directory"]
    ELSE IF \E k \in 1..Len(boxes) : "x" \notin DOMAIN boxes[k]
    THEN [status |-> "error", error |-> "'x'"]
    ELSE IF ~can_save
    THEN [status |-> "error", error |-> "Is a directory"]
    ELSE [status |-> "success", boxes_added |-> Len(boxes)]

(***************************************************************************)
(* preprocess_dataset                                                      *)
(***************************************************************************)

\* Largest number of entries of the input directory.
MaxFiles == 3

\* The default target_size of ImagePreprocessor.
DefaultSize == <<640, 640>>

\* The size of the images of the input directory.
SourceSize == <<MaxDim, 1>>

NoAnnotations == [given |-> FALSE, dict |-> <<>>]

\* The annotations arguments of the model: None, the empty dict, a dict
\* with the key a.jpg, and two with the keys a.jpg and b.png.
AnnotationChoices ==
    {NoAnnotations}
    \cup {[given |-> TRUE, dict |-> d] : d \in [{a_jpg} -> BoxLists]}
    \cup {[given |-> TRUE, dict |-> d] : d \in [{} -> BoxLists]}
    \cup {[given |-> TRUE, dict |-> d] :
            d \in [{a_jpg, b_png} -> {<<GoodBox>>}]}
    \cup {[given |-> TRUE, dict |-> (a_jpg :> <<>>) @@ (b_png :> <<GoodBox>>)]}

\* The directories output_dir may hold before the call.
OutDirChoices == {{}, {a_jpg}, {ResizedName(b_PNG)}}

\* Path(input_dir).iterdir(): the entries, in arbitrary order.
iterdir(dir) ==
    {s \in [1..Cardinality(dir) -> dir] :
        \A i, j \in 1..Cardinality(dir) : s[i] = s[j] => i = j}

NoResults == [processed |-> <<>>, failed |-> <<>>, total |-> 0]

\* results["total"] += 1, done twice.
CountFile_twice(res) == [res EXCEPT !.total = @ + 2]

\* results["total"] += 1
CountFile(res) == [res EXCEPT !.total = @ + 1]

\* results["failed"].append({"file": ..., "error": ...}); continue
AddFailed(res, name, error) ==
    [res EXCEPT !.failed = Append(@, [file |-> name, error |-> error])]

\* results["processed"].append({"file": ..., "output": str(final_path)});
\* the output path is given by its name in output_dir.
AddProcessed(res, name, final_path) ==
    [res EXCEPT !.processed = Append(@, [file |-> name, output |-> final_path])]

\* The test of annotations.get(img_file.name): an entry with an empty box
\* list does not count.
HasAnnotation_nonempty(ann, name) ==
    /\ ann.given
    /\ name \in DOMAIN ann.dict
    /\ ann.dict[name] # <<>>

\* annotations and img_file.name in annotations
HasAnnotation(ann, name) ==
    /\ ann.given
    /\ DOMAIN ann.dict # {}
    /\ name \in DOMAIN ann.dict

\* os.remove(resized_path) moved behind the status check of the annotate
\* result.
RemoveIntermediate_onSuccess(files, resized_path, bbox_result) ==
    IF bbox_result.status = "error" THEN files ELSE files \ {resized_path}

\* os.remove(resized_path), right after the call of add_bounding_boxes.
RemoveIntermediate(files, resized_path, bbox_result) ==
    files \ {resized_path}

\* resize_result["status"] == "error", never true.
ResizeFailed_never(resize_result) == FALSE

\* resize_result["status"] == "error"
ResizeFailed(resize_result) == resize_result.status = "error"

\* The entry the for loop takes next, and what its first step gives.
Entry == order[idx + 1]

ResizeResult ==
    resize_image([readable |-> Entry \notin unreadable, size |-> SourceSize],
                 DefaultSize, TRUE, ResizedName(Entry) \notin outDirs)

\* The files of output_dir after the resize step.
FilesAfterResize ==
    IF ResizeResult.status = "success"
    THEN outFiles \cup {ResizedName(Entry)}
    ELSE outFiles

LogResize ==
    [op |-> "resize", file |-> Entry, path |-> ResizedName(Entry),
     status |-> ResizeResult.status]

\* Path(output_dir).mkdir(...), results = {...}, and the start of the for
\* loop over Path(input_dir).iterdir().
Start ==
    /\ pc = "start"
    /\ results' = NoResults
    /\ \E o \in iterdir(inputDir) : order' = o
    /\ idx' = 0
    /\ log' = <<>>
    /\ pc' = "loop"
    /\ UNCHANGED <<outFiles, run, prev, dirVars, agVars, rzVars, smVars>>

\* An entry whose suffix is not an image extension: the loop goes on.
SkipEntry ==
    /\ pc = "loop"
    /\ idx < Len(order)
    /\ ~IsEligible(Entry)
    /\ idx' = idx + 1
    /\ UNCHANGED <<outFiles, pc, order, results, log, run, prev,
                   dirVars, agVars, rzVars, smVars>>

\* An eligible entry whose resize step returns an error.
ResizeFails ==
    /\ pc = "loop"
    /\ idx < Len(order)
    /\ IsEligible(Entry)
    /\ ResizeFailed(ResizeResult)
    /\ results' = AddFailed(CountFile(results), Entry, ResizeResult.error)
    /\ log' = Append(log, LogResize)
    /\ outFiles' = FilesAfterResize
    /\ idx' = idx + 1
    /\ UNCHANGED <<pc, order, run, prev, dirVars, agVars, rzVars, smVars>>

\* An eligible, resized entry with annotations: add_bounding_boxes from
\* the intermediate to the final path, os.remove of the intermediate, then
\* failed or processed.  os.remove raises when the intermediate is not
\* there.
AnnotateEntry ==
    /\ pc = "loop"
    /\ idx < Len(order)
    /\ IsEligible(Entry)
    /\ ~ResizeFailed(ResizeResult)
    /\ HasAnnotation(annotations, Entry)
    /\ LET resized_path == ResizedName(Entry)
           final_path == Entry
           files1 == FilesAfterResize
           bbox_result == add_bounding_boxes(resized_path \in files1,
                                             annotations.dict[Entry],
                                             final_path \notin outDirs)
           files2 == IF bbox_result.status = "success"
                     THEN files1 \cup {final_path} ELSE files1
           removed == resized_path \in files2
           log1 == log \o <<LogResize,
                            [op |-> "annotate", file |-> Entry,
                             src |-> resized_path,
                             boxes |-> annotations.dict[Entry],
                             path |-> final_path,
                             status |-> bbox_result.status],
                            [op |-> "remove", file |-> Entry,
                             path |-> resized_path,
                             status |-> IF removed THEN "success"
                                        ELSE "error"]>>
       IN  /\ log' = log1
           /\ outFiles' = RemoveIntermediate(files2, resized_path, bbox_result)
           /\ IF ~removed
              THEN /\ pc' = "raised"
                   /\ results' = CountFile(results)
                   /\ idx' = idx
              ELSE /\ pc' = pc
                   /\ idx' = idx + 1
                   /\ results' =
                        IF bbox_result.status = "error"
                        THEN AddFailed(CountFile(results), Entry,
                                       bbox_result.error)
                        ELSE AddProcessed(CountFile(results), Entry,
                                          final_path)
    /\ UNCHANGED <<order, run, prev, dirVars, agVars, rzVars, smVars>>

\* resized_path.rename(final_path) raises when the intermediate is not
\* there or the final path is a directory.
RenameRaises(files, resized_path, final_path) ==
    resized_path \notin files \/ final_path \in outDirs

\* An eligible, resized entry without annotations: the intermediate is
\* renamed to the final path.  An exception of rename leaves
\* preprocess_dataset.
RenameEntry ==
    /\ pc = "loop"
    /\ idx < Len(order)
    /\ IsEligible(Entry)
    /\ ~ResizeFailed(ResizeResult)
    /\ ~HasAnnotation(annotations, Entry)
    /\ LET resized_path == ResizedName(Entry)
           final_path == Entry
           files1 == FilesAfterResize
           raises == RenameRaises(files1, resized_path, final_path)
       IN  /\ log' = log \o <<LogResize,
                              [op |-> "rename", file |-> Entry,
                               src |-> resized_path,
                               path |-> final_path,
                               status |-> IF raises THEN "error"
                                          ELSE "success"]>>
           /\ IF raises
              THEN /\ pc' = "raised"
                   /\ outFiles' = files1
                   /\ results' = CountFile(results)
                   /\ idx' = idx
              ELSE /\ pc' = pc
                   /\ outFiles' = (files1 \ {resized_path}) \cup {final_path}
                   /\ results' = AddProcessed(CountFile(results), Entry,
                                              final_path)
                   /\ idx' = idx + 1
    /\ UNCHANGED <<order, run, prev, dirVars, agVars, rzVars, smVars>>

\* The for loop is over: return results.
Return ==
    /\ pc = "loop"
    /\ idx = Len(order)
    /\ pc' = "done"
    /\ UNCHANGED <<outFiles, order, idx, results, log, run, prev,
                   dirVars, agVars, rzVars, smVars>>

\* A second call with the same arguments on the same directories.
Rerun ==
    /\ pc = "done"
    /\ run = 1
    /\ run' = 2
    /\ prev' = results
    /\ pc' = "start"
    /\ UNCHANGED <<outFiles, order, idx, results, log,
                   dirVars, agVars, rzVars, smVars>>

(***************************************************************************)
(* detect_api_provider and main                                            *)
(***************************************************************************)

OPENAI_API_KEY == "OPENAI_API_KEY"

GEMINI_API_KEY == "GEMINI_API_KEY"

\* 'your-gemini-api-key-here'
gemini_placeholder ==
    <<"y", "o", "u", "r", "-", "g", "e", "m", "i", "n", "i", "-",
      "a", "p", "i", "-", "k", "e", "y", "-", "h", "e", "r", "e">>

\* The values a key has in the model: empty, one that starts with sk-, one
\* that does not, and the placeholder.
KeyValues ==
    {<<>>, <<"s", "k", "-", "1">>, <<"A", "I", "z", "a">>, gemini_placeholder}

\* The variables os.environ or the .env file may set.
Environments ==
    UNION {[S -> KeyValues] : S \in SUBSET {OPENAI_API_KEY, GEMINI_API_KEY}}

\* load_dotenv(): a variable of the .env file is set unless os.environ
\* already has it.
load_dotenv(env, file) ==
    [n \in DOMAIN env \cup DOMAIN file |->
        IF n \in DOMAIN env THEN env[n] ELSE file[n]]

\* key and ...: os.getenv gave a value, and it is not the empty string.
Truthy(env, name) == name \in DOMAIN env /\ env[name] # <<>>

\* str.startswith
startswith(str, prefix) ==
    /\ Len(str) >= Len(prefix)
    /\ SubSeq(str, 1, Len(prefix)) = prefix

\* detect_api_provider with the Gemini check first.
detect_api_provider_geminiFirst(env) ==
    IF /\ Truthy(env, GEMINI_API_KEY)
       /\ env[GEMINI_API_KEY] # gemini_placeholder
    THEN "gemini"
    ELSE IF /\ Truthy(env, OPENAI_API_KEY)
            /\ ~(startswith(env[OPENAI_API_KEY], <<"s", "k", "-">>) = FALSE)
    THEN "openai"
    ELSE "None"

\* What detect_api_provider returns on the environment load_dotenv left:
\* openai_key and not openai_key.startswith('sk-') == False, then
\* gemini_key and gemini_key != 'your-gemini-api-key-here', then None.
detect_api_provider(env) ==
    IF /\ Truthy(env, OPENAI_API_KEY)
       /\ ~(startswith(env[OPENAI_API_KEY], <<"s", "k", "-">>) = FALSE)
    THEN "openai"
    ELSE IF /\ Truthy(env, GEMINI_API_KEY)
            /\ env[GEMINI_API_KEY] # gemini_placeholder
    THEN "gemini"
    ELSE "None"

\* main: load_dotenv()
MainLoadDotenv ==
    /\ agPc = "start"
    /\ environ' = load_dotenv(environ, dotenv)
    /\ agPc' = "loaded"
    /\ UNCHANGED <<dotenv, provider, rzVars, smVars, dirVars, callVars>>

\* main: provider = detect_api_provider(), which calls load_dotenv() itself.
DetectProvider ==
    /\ agPc = "loaded"
    /\ environ' = load_dotenv(environ, dotenv)
    /\ provider' = detect_api_provider(environ')
    /\ agPc' = "detected"
    /\ UNCHANGED <<dotenv, rzVars, smVars, dirVars, callVars>>

\* main: run_with_openai()
RunWithOpenAI ==
    /\ agPc = "detected"
    /\ provider = "openai"
    /\ agPc' = "openai_main"
    /\ UNCHANGED <<environ, dotenv, provider, rzVars, smVars, dirVars, callVars>>

\* main: run_with_gemini()
RunWithGemini ==
    /\ agPc = "detected"
    /\ provider # "openai"
    /\ provider = "gemini"
    /\ agPc' = "gemini_main"
    /\ UNCHANGED <<environ, dotenv, provider, rzVars, smVars, dirVars, callVars>>

\* main: the else branch, which ends in sys.exit(1).
ExitNoProvider ==
    /\ agPc = "detected"
    /\ provider # "openai"
    /\ provider # "gemini"
    /\ agPc' = "sys.exit(1)"
    /\ UNCHANGED <<environ, dotenv, provider, rzVars, smVars, dirVars, callVars>>

(***************************************************************************)
(* Specifications                                                          *)
(***************************************************************************)

SampleIdle ==
    /\ smIn = [num_boxes |-> 0, image_width |-> 640, image_height |-> 640]
    /\ smPc = "returned"
    /\ smI = 0
    /\ smBoxes = <<>>

ResizeIdle ==
    /\ rzIn = [img |-> [readable |-> FALSE, size |-> <<1, 1>>],
               target_size |-> <<640, 640>>, maintain_aspect |-> TRUE,
               can_save |-> TRUE]
    /\ rzOut = [status |-> "error", error |-> "cannot identify image file"]

AgentIdle ==
    /\ environ = [n \in {} |-> <<>>]
    /\ dotenv = [n \in {} |-> <<>>]
    /\ agPc = "idle"
    /\ provider = "None"

BatchIdle ==
    /\ inputDir = {}
    /\ unreadable = {}
    /\ annotations = NoAnnotations
    /\ outDirs = {}
    /\ outFiles = {}
    /\ pc = "done"
    /\ order = <<>>
    /\ idx = 0
    /\ results = NoResults
    /\ log = <<>>
    /\ run = 1
    /\ prev = NoResults

InitResize ==
    /\ rzIn \in ResizeInputs
    /\ rzOut = NoResult
    /\ SampleIdle
    /\ BatchIdle
    /\ AgentIdle

NextResize == ResizeCall

SpecResize == InitResize /\ [][NextResize]_vars

InitSample ==
    /\ smIn \in SampleInputs
    /\ smPc = "loop"
    /\ smI = 0
    /\ smBoxes = <<>>
    /\ ResizeIdle
    /\ BatchIdle
    /\ AgentIdle

NextSample == SampleBox \/ SampleRaise \/ SampleReturn

SpecSample == InitSample /\ [][NextSample]_vars

\* Before a call of preprocess_dataset: an input directory of at most
\* MaxFiles entries, some of them unreadable, and an empty or nearly empty
\* output directory.
Init ==
    /\ inputDir \in {d \in SUBSET Names : Cardinality(d) <= MaxFiles}
    /\ unreadable \in SUBSET inputDir
    /\ annotations \in AnnotationChoices
    /\ outDirs \in OutDirChoices
    /\ outFiles = {}
    /\ pc = "start"
    /\ order = <<>>
    /\ idx = 0
    /\ results = NoResults
    /\ log = <<>>
    /\ run = 1
    /\ prev = NoResults
    /\ ResizeIdle
    /\ SampleIdle
    /\ AgentIdle

Next ==
    \/ Start
    \/ SkipEntry
    \/ ResizeFails
    \/ AnnotateEntry
    \/ RenameEntry
    \/ Return

Spec == Init /\ [][Next]_vars

\* Two calls in a row on the same directories.
NextRerun == Next \/ Rerun

SpecRerun == Init /\ [][NextRerun]_vars

\* Before main: any environment and any .env file.
InitAgent ==
    /\ environ \in Environments
    /\ dotenv \in Environments
    /\ agPc = "start"
    /\ provider = "None"
    /\ ResizeIdle
    /\ SampleIdle
    /\ BatchIdle

NextAgent ==
    \/ MainLoadDotenv
    \/ DetectProvider
    \/ RunWithOpenAI
    \/ RunWithGemini
    \/ ExitNoProvider

SpecAgent == InitAgent /\ [][NextAgent]_vars

(***************************************************************************)
(* Properties of resize_image                                              *)
(***************************************************************************)

RzSuccess == rzOut.status = "success"

\* C6: a successful resize_image reports, and saves, an image of exactly
\* the target size, on the letterbox path and on the stretch path.
C6_ExactTargetSize ==
    RzSuccess => rzOut.new_size = rzIn.target_size

\* A letterboxed image that was narrower than the target and taller than it.
C6_Witness ==
    /\ RzSuccess
    /\ rzIn.maintain_aspect
    /\ rzIn.img.size[1] < rzIn.target_size[1]
    /\ rzIn.img.size[2] > rzIn.target_size[2]
    /\ rzOut.new_size = rzIn.target_size

\* C7: on the letterbox path the scaled image fits in the target, the
\* offset is floor((target - scaled) / 2) >= 0 on each axis, and the
\* paddings of opposite edges differ by at most one pixel.
C7_Centered ==
    (RzSuccess /\ rzIn.maintain_aspect) =>
        \A a \in 1..2 :
            LET t == rzIn.target_size[a]
                s == rzOut.scaled[a]
                before == rzOut.paste[a]
                after == t - s - before
            IN  /\ s >= 1
                /\ s <= t
                /\ 2 * before <= t - s
                /\ t - s < 2 * before + 2
                /\ before >= 0
                /\ after >= 0
                /\ Abs(after - before) <= 1

\* A scaled-down image with an odd padding on one axis.
C7_Witness ==
    /\ RzSuccess
    /\ rzIn.maintain_aspect
    /\ rzOut.scaled # rzIn.img.size
    /\ \E a \in 1..2 : (rzIn.target_size[a] - rzOut.scaled[a]) % 2 = 1

(***************************************************************************)
(* Properties of preprocess_dataset                                        *)
(***************************************************************************)

Returned == pc = "done"

FilesOf(list) == {list[k].file : k \in 1..Len(list)}

TimesIn(list, name) == Cardinality({k \in 1..Len(list) : list[k].file = name})

\* C1: when preprocess_dataset returns, total = len(processed) +
\* len(failed), and no file is in both lists.
C1_TotalIsSum ==
    Returned =>
        /\ results.total = Len(results.processed) + Len(results.failed)
        /\ FilesOf(results.processed) \cap FilesOf(results.failed) = {}

\* A returned run with a processed file, a resize failure and an annotate
\* failure.
C1_Witness ==
    /\ Returned
    /\ Len(results.processed) = 1
    /\ \E j, k \in 1..Len(results.failed) :
          /\ results.failed[j].error = "'x'"
          /\ results.failed[k].error = "cannot identify image file"

\* The extension of a name, as the claim has it: the name ends, case
\* ignored, in one of the five extensions, after at least one character.
EndsIn(name, ext) ==
    /\ Len(name) > Len(ext)
    /\ Lower(SubSeq(name, Len(name) - Len(ext) + 1, Len(name))) = ext

HasImageExtension(name) ==
    \/ EndsIn(name, <<".", "j", "p", "g">>)
    \/ EndsIn(name, <<".", "j", "p", "e", "g">>)
    \/ EndsIn(name, <<".", "p", "n", "g">>)
    \/ EndsIn(name, <<".", "b", "m", "p">>)
    \/ EndsIn(name, <<".", "t", "i", "f", "f">>)

\* C2: when preprocess_dataset returns, total is the number of entries of
\* the input directory with an image extension, and no other entry was
\* resized or is listed in processed or failed.
C2_TotalIsEligibleCount ==
    Returned =>
        /\ results.total =
              Cardinality({n \in inputDir : HasImageExtension(n)})
        /\ \A n \in inputDir :
              ~HasImageExtension(n) =>
                  /\ n \notin FilesOf(results.processed)
                  /\ n \notin FilesOf(results.failed)
                  /\ \A k \in 1..Len(log) : log[k].file # n

\* A .webp entry next to two images, one of which failed.
C2_Witness ==
    /\ Returned
    /\ d_webp \in inputDir
    /\ b_PNG \in inputDir
    /\ results.total = 2
    /\ Len(results.failed) = 1
    /\ Len(results.processed) = 1

\* C3: no error leaves preprocess_dataset: a failure of any step of a
\* file, the rename to the final path included, ends in failed, and the
\* loop goes on to the entries after it.
C3_NoErrorEscapes ==
    /\ pc # "raised"
    /\ Returned =>
          \A n \in inputDir :
              HasImageExtension(n) =>
                  n \in FilesOf(results.processed) \cup FilesOf(results.failed)

\* C4: a file whose resize step fails is in failed exactly once, with a
\* non-empty error, is not in processed, is not passed to the annotate,
\* remove or rename step, and no final output is written under its name.
C4_ResizeFailure ==
    \A k \in 1..Len(log) :
        (log[k].op = "resize" /\ log[k].status = "error") =>
            /\ TimesIn(results.failed, log[k].file) = 1
            /\ \A j \in 1..Len(results.failed) :
                  results.failed[j].file = log[k].file =>
                      results.failed[j].error # ""
            /\ log[k].file \notin FilesOf(results.processed)
            /\ \A j \in 1..Len(log) :
                  log[j].op \in {"annotate", "remove", "rename"} =>
                      log[j].file # log[k].file
            /\ \A j \in 1..Len(log) :
                  log[j].op \in {"annotate", "rename"} =>
                      log[j].path # log[k].file

\* A resize failure followed by the rename of a later file, in a run that
\* returned.
C4_Witness ==
    /\ Returned
    /\ \E k, j \in 1..Len(log) :
          /\ k < j
          /\ log[k].op = "resize"
          /\ log[k].status = "error"
          /\ log[j].op = "rename"
          /\ log[j].status = "success"

\* The last file went through the annotate step, and that step failed.
AnnotateJustFailed ==
    /\ Len(log) >= 2
    /\ log[Len(log) - 1].op = "annotate"
    /\ log[Len(log) - 1].status = "error"

LastAnnotated == log[Len(log) - 1].file

LastFailed == results.failed[Len(results.failed)]

\* C5 as stated: after a failed annotate step the file is in failed and
\* its intermediate resized_<name> is still in the output directory.
C5_IntermediateKept ==
    AnnotateJustFailed =>
        /\ Len(results.failed) >= 1
        /\ LastFailed.file = LastAnnotated
        /\ ResizedName(LastAnnotated) \in outFiles

\* C5 amended: after a failed annotate step the file is in failed and its
\* intermediate resized_<name> has been deleted, as after a successful
\* one.
C5_IntermediateDeleted ==
    /\ AnnotateJustFailed =>
          /\ Len(results.failed) >= 1
          /\ LastFailed.file = LastAnnotated
          /\ LastAnnotated \notin FilesOf(results.processed)
          /\ ResizedName(LastAnnotated) \notin outFiles
    /\ (Len(log) >= 2 /\ log[Len(log) - 1].op = "annotate"
        /\ log[Len(log) - 1].status = "success") =>
          ResizedName(LastAnnotated) \notin outFiles

\* a.jpg has just failed in the annotate step, after its resize had
\* written the intermediate.
C5_Witness ==
    /\ AnnotateJustFailed
    /\ LastAnnotated = a_jpg
    /\ Len(log) >= 3
    /\ log[Len(log) - 2].op = "resize"
    /\ log[Len(log) - 2].status = "success"
    /\ log[Len(log) - 2].path = ResizedName(a_jpg)
    /\ ResizedName(a_jpg) \notin outFiles

\* The claim's test: annotations has an entry under exactly this name.
HasEntryFor(name) == annotations.given /\ name \in DOMAIN annotations.dict

\* C11: a resized file is annotated if and only if annotations has an
\* entry under its exact name, an empty box list included: then the
\* intermediate resized_<name> is annotated into <name> with that entry's
\* boxes and removed; otherwise it is renamed to <name> and no annotate
\* call is made.
C11_AnnotateIffEntry ==
    \A k \in 1..Len(log) :
        (log[k].op = "resize" /\ log[k].status = "success") =>
            /\ log[k].path = ResizedName(log[k].file)
            /\ Len(log) > k
            /\ log[k + 1].file = log[k].file
            /\ log[k + 1].src = ResizedName(log[k].file)
            /\ log[k + 1].path = log[k].file
            /\ IF HasEntryFor(log[k].file)
               THEN /\ log[k + 1].op = "annotate"
                    /\ log[k + 1].boxes = annotations.dict[log[k].file]
                    /\ Len(log) > k + 1
                    /\ log[k + 2].op = "remove"
                    /\ log[k + 2].path = ResizedName(log[k].file)
                    /\ log[k + 2].status = "success"
               ELSE /\ log[k + 1].op = "rename"
                    /\ \A j \in 1..Len(log) :
                          log[j].file = log[k].file => log[j].op # "annotate"

\* a.jpg was annotated with its empty box list and b.PNG, for which
\* annotations only has the key b.png, was renamed.
C11_Witness ==
    /\ Returned
    /\ b_png \in DOMAIN annotations.dict
    /\ \E j, k \in 1..Len(log) :
          /\ log[j].op = "annotate"
          /\ log[j].file = a_jpg
          /\ log[j].boxes = <<>>
          /\ log[j].status = "success"
          /\ log[k].op = "rename"
          /\ log[k].file = b_PNG
          /\ log[k].status = "success"
    /\ outFiles = {a_jpg, b_PNG}

\* C13: when preprocess_dataset returns, every entry of processed has its
\* file at the recorded output path: no later intermediate resized_<name>
\* has overwritten or removed the final output of an earlier file.
C13_OutputsExist ==
    Returned =>
        \A k \in 1..Len(results.processed) :
            /\ results.processed[k].output = results.processed[k].file
            /\ results.processed[k].output \in outFiles

\* C10: two calls on the same input directory and annotations return the
\* same processed and failed sequences, in the same order.
C10_SameOrder ==
    (run = 2 /\ Returned) =>
        /\ results.processed = prev.processed
        /\ results.failed = prev.failed

(***************************************************************************)
(* Properties of detect_api_provider and main                              *)
(***************************************************************************)

Detected == agPc \in {"detected", "openai_main", "gemini_main", "sys.exit(1)"}

KeyIsSet(name) == name \in DOMAIN environ /\ environ[name] # <<>>

GeminiConfigured ==
    KeyIsSet(GEMINI_API_KEY) /\ environ[GEMINI_API_KEY] # gemini_placeholder

OpenAIKeyHasPrefix ==
    /\ KeyIsSet(OPENAI_API_KEY)
    /\ Len(environ[OPENAI_API_KEY]) >= 3
    /\ environ[OPENAI_API_KEY][1] = "s"
    /\ environ[OPENAI_API_KEY][2] = "k"
    /\ environ[OPENAI_API_KEY][3] = "-"

MainFollowsProvider ==
    /\ agPc = "openai_main" => provider = "openai"
    /\ agPc = "gemini_main" => provider = "gemini"
    /\ agPc = "sys.exit(1)" => provider = "None"
    /\ Detected => provider \in {"openai", "gemini", "None"}

\* C12 as stated: 'openai' whenever OPENAI_API_KEY is set to a non-empty
\* value, else 'gemini' whenever GEMINI_API_KEY is set, non-empty and not
\* the placeholder, None only if neither holds; main launches the backend
\* selected and exits with status 1 on None.
C12_AnyOpenAIKey ==
    Detected =>
        /\ KeyIsSet(OPENAI_API_KEY) => provider = "openai"
        /\ (~KeyIsSet(OPENAI_API_KEY) /\ GeminiConfigured) =>
              provider = "gemini"
        /\ provider = "None" =>
              (~KeyIsSet(OPENAI_API_KEY) /\ ~GeminiConfigured)
        /\ MainFollowsProvider

\* C12 amended: 'openai' whenever OPENAI_API_KEY is set and starts with
\* sk-, else 'gemini' whenever GEMINI_API_KEY is set, non-empty and not the
\* placeholder, None otherwise; main launches the backend selected and
\* exits with status 1 on None.
C12_PrefixedOpenAIKey ==
    Detected =>
        /\ OpenAIKeyHasPrefix => provider = "openai"
        /\ (~OpenAIKeyHasPrefix /\ GeminiConfigured) => provider = "gemini"
        /\ (~OpenAIKeyHasPrefix /\ ~GeminiConfigured) => provider = "None"
        /\ MainFollowsProvider

\* The Gemini backend was launched although OPENAI_API_KEY has a value,
\* one without the prefix sk-, and both keys came from the .env file.
C12_Witness ==
    /\ agPc = "gemini_main"
    /\ KeyIsSet(OPENAI_API_KEY)
    /\ ~OpenAIKeyHasPrefix
    /\ DOMAIN dotenv = {OPENAI_API_KEY, GEMINI_API_KEY}
    /\ environ = dotenv

(***************************************************************************)
(* Properties of create_sample_annotations                                 *)
(***************************************************************************)

InPosRange(v, dimension) == XLow <= v /\ v < Max(51, dimension - 150)

InSizeRange(v) == 80 <= v /\ v < 150

\* C8 as stated: every count >= 0 and every width and height, those of 200
\* or less included, yield count boxes with x in
\* [50, max(51, width - 150)), y in [50, max(51, height - 150)) and
\* width, height in [80, 150).
C8_AnyDimension ==
    smIn.num_boxes >= 0 =>
        /\ smPc # "raised"
        /\ smPc = "returned" =>
              /\ Len(smBoxes) = smIn.num_boxes
              /\ \A k \in 1..Len(smBoxes) :
                    /\ InPosRange(smBoxes[k].x, smIn.image_width)
                    /\ InPosRange(smBoxes[k].y, smIn.image_height)
                    /\ InSizeRange(smBoxes[k].width)
                    /\ InSizeRange(smBoxes[k].height)

SmallDimension == smIn.image_width <= 200 \/ smIn.image_height <= 200

\* C8 amended: with width and height above 200 the call returns count
\* boxes with x in [50, width - 150), y in [50, height - 150) and width,
\* height in [80, 150); with count >= 1 and a width or height of 200 or
\* less it raises and returns nothing; count = 0 returns the empty list.
C8_LargeDimension ==
    /\ smPc = "returned" =>
          /\ Len(smBoxes) = Max(smIn.num_boxes, 0)
          /\ smIn.num_boxes >= 1 => ~SmallDimension
          /\ \A k \in 1..Len(smBoxes) :
                /\ 50 <= smBoxes[k].x
                /\ smBoxes[k].x < smIn.image_width - 150
                /\ 50 <= smBoxes[k].y
                /\ smBoxes[k].y < smIn.image_height - 150
                /\ InSizeRange(smBoxes[k].width)
                /\ InSizeRange(smBoxes[k].height)
    /\ smPc = "raised" =>
          /\ smIn.num_boxes >= 1
          /\ SmallDimension
          /\ smBoxes = <<>>

\* A returned list of several boxes, one of them at the largest x of its
\* range and of the largest width.
C8_Witness ==
    /\ smPc = "returned"
    /\ Len(smBoxes) = smIn.num_boxes
    /\ Len(smBoxes) >= 2
    /\ \E k \in 1..Len(smBoxes) :
          /\ smBoxes[k].x = smIn.image_width - 151
          /\ smBoxes[k].x > 50
          /\ smBoxes[k].width = 149

\* C9: the box at index i carries labels[i mod 5] and colors[i mod 5] of
\* the fixed lists, whatever its geometry.
C9_CyclicLabels ==
    \A k \in 1..Len(smBoxes) :
        /\ smBoxes[k].label =
              <<"object", "target", "item", "entity", "element">>[((k - 1) % 5) + 1]
        /\ smBoxes[k].color =
              <<"red", "blue", "green", "yellow", "purple">>[((k - 1) % 5) + 1]

\* count = 7: the labels of indexes 5 and 6 are those of indexes 0 and 1,
\* on boxes of different geometry.
C9_Witness ==
    /\ smPc = "returned"
    /\ Len(smBoxes) = 7
    /\ smBoxes[6].label = "object"
    /\ smBoxes[7].label = "target"
    /\ smBoxes[7].color = "blue"
    /\ smBoxes[6].width # smBoxes[1].width

====
